---- MODULE Spec2Model ----
(***************************************************************************)
(* A model of src/src/app.py: the Flask view handle_generate_pdf, the      *)
(* HTML builder generate_code_review_pdf, convert_utc_to_est and           *)
(* send_pdf_response.                                                      *)
(*                                                                         *)
(* Representation.                                                         *)
(*   - A Python str that ends up in the HTML is a sequence of tokens (a    *)
(*     token is a TLA+ string): a piece of plain text or a piece of        *)
(*     markup.  An f-string interpolation is a concatenation, so text that *)
(*     carries markup lands in the document as markup.                     *)
(*   - An Optional value is a sequence of length at most one: None is <<>>,*)
(*     a present value v is <<v>>.                                         *)
(*   - A JSON object (a Python dict) is a function on the set of its keys; *)
(*     "k in d" is k \in DOMAIN d, d[k] on a missing key raises KeyError.  *)
(*   - A timestamp string is a record of the fields strptime reads.        *)
(***************************************************************************)
EXTENDS Integers, Sequences, FiniteSets, TLC

(***************************************************************************)
(* Bounds of the model.                                                    *)
(***************************************************************************)
MaxDiscussions == 2
MaxNotes == 2
MaxRequests == 2

None == <<>>
Some(v) == <<v>>

Without(obj, key) == [k \in DOMAIN obj \ {key} |-> obj[k]]

(***************************************************************************)
(* API keys: DEFAULT_KEY and load_api_keys.                                *)
(***************************************************************************)
DEFAULT_KEY == "1840ca99-74ac-45d2-8476-3baf66f64125"

ConfiguredKey == "key-from-config.ini"

\* The config.ini the process finds at start: no file, or a file with an
\* API_KEYS section.
ConfigFiles == { None, Some([API_KEYS |-> <<ConfiguredKey>>]) }

load_api_keys(file) ==
    IF file # None THEN file[1].API_KEYS ELSE <<DEFAULT_KEY>>

\* As InKeys, with a request that carries no key let through.
InKeysOrAbsent(api_key, keys) ==
    \/ api_key = None
    \/ \E n \in 1..Len(keys) : keys[n] = api_key[1]

\* "api_key in VALID_API_KEYS" for an Optional api_key and a list of strings.
InKeys(api_key, keys) ==
    /\ api_key # None
    /\ \E n \in 1..Len(keys) : keys[n] = api_key[1]

\* '{}'.format(api_key)
FormatKey(api_key) == IF api_key = None THEN "None" ELSE api_key[1]

(***************************************************************************)
(* convert_utc_to_est.  A timestamp string is modelled by the fields that  *)
(* strptime("%Y-%m-%dT%H:%M:%S.%fZ") reads from it: the numbers, the       *)
(* literal between date and time, the number of fractional digits and the  *)
(* suffix.  The zone rules are those of America/New_York since 2007.       *)
(***************************************************************************)
IsLeap(y) == (y % 4 = 0 /\ y % 100 # 0) \/ y % 400 = 0

DaysInMonth(y, m) ==
    IF m = 2 THEN (IF IsLeap(y) THEN 29 ELSE 28)
    ELSE IF m \in {4, 6, 9, 11} THEN 30 ELSE 31

\* 0 = Sunday.
DayOfWeek(y, m, d) ==
    LET t == <<0, 3, 2, 5, 0, 3, 5, 1, 4, 6, 2, 4>>
        yy == IF m < 3 THEN y - 1 ELSE y
    IN (yy + (yy \div 4) - (yy \div 100) + (yy \div 400) + t[m] + d) % 7

\* Daylight saving starts on the second Sunday of March at 07:00 UTC and
\* ends on the first Sunday of November at 06:00 UTC.
DstStartDay(y) == CHOOSE d \in 8..14 : DayOfWeek(y, 3, d) = 0
DstEndDay(y) == CHOOSE d \in 1..7 : DayOfWeek(y, 11, d) = 0

InDst(ts) ==
    LET key == ts.month * 10000 + ts.day * 100 + ts.hour
    IN /\ key >= 30000 + DstStartDay(ts.year) * 100 + 7
       /\ key < 110000 + DstEndDay(ts.year) * 100 + 6

\* datetime.strptime succeeds on the string.
MatchesFormat(ts) ==
    /\ ts.sep = "T"
    /\ ts.suffix = "Z"
    /\ ts.fracDigits \in 1..6
    /\ ts.month \in 1..12
    /\ ts.day \in 1..DaysInMonth(ts.year, ts.month)
    /\ ts.hour \in 0..23
    /\ ts.minute \in 0..59
    /\ ts.second \in 0..59

\* astimezone(America/New_York): the local date and hour.
ToEastern(ts) ==
    LET off == IF InDst(ts) THEN 4 ELSE 5
    IN IF ts.hour >= off
         THEN [ts EXCEPT !.hour = ts.hour - off]
       ELSE IF ts.day > 1
         THEN [ts EXCEPT !.hour = ts.hour + 24 - off, !.day = ts.day - 1]
       ELSE IF ts.month > 1
         THEN [ts EXCEPT !.hour = ts.hour + 24 - off,
                         !.month = ts.month - 1,
                         !.day = DaysInMonth(ts.year, ts.month - 1)]
       ELSE [ts EXCEPT !.hour = ts.hour + 24 - off,
                       !.year = ts.year - 1, !.month = 12, !.day = 31]

Pad2(n) == IF n < 10 THEN "0" \o ToString(n) ELSE ToString(n)

\* strftime("%Y-%m-%d %H:%M:%S")
Strftime(ts) ==
    ToString(ts.year) \o "-" \o Pad2(ts.month) \o "-" \o Pad2(ts.day) \o " "
        \o Pad2(ts.hour) \o ":" \o Pad2(ts.minute) \o ":" \o Pad2(ts.second)

\* As convert_utc_to_est, with the ValueError caught and the epoch returned.
convert_utc_to_est_or_epoch(utc_timestamp_str) ==
    IF utc_timestamp_str = None
      THEN [raised |-> FALSE, value |-> None]
    ELSE IF ~MatchesFormat(utc_timestamp_str[1])
      THEN [raised |-> FALSE, value |-> Some("1970-01-01 00:00:00")]
    ELSE [raised |-> FALSE,
          value |-> Some(Strftime(ToEastern(utc_timestamp_str[1])))]

\* The outcome of convert_utc_to_est: [raised |-> TRUE] for the ValueError
\* of strptime, otherwise the returned Optional string.
convert_utc_to_est(utc_timestamp_str) ==
    IF utc_timestamp_str = None
      THEN [raised |-> FALSE, value |-> None]
    ELSE IF ~MatchesFormat(utc_timestamp_str[1])
      THEN [raised |-> TRUE, value |-> None]
    ELSE [raised |-> FALSE,
          value |-> Some(Strftime(ToEastern(utc_timestamp_str[1])))]

\* f'{timestamp}' for an Optional string.
FormatOptional(v) == IF v = None THEN <<"None">> ELSE <<v[1]>>

(***************************************************************************)
(* The markup generate_code_review_pdf writes around the interpolated      *)
(* values.  One token stands for one tag of the template.                  *)
(***************************************************************************)
OuterTableOpen == "<table style='width: 100%;'>"
ReplyTableOpen == "<table>"
TableClose == "</table>"

\* datetime.now(America/New_York).strftime(...): the clock reading.
GeneratedAt == "<generated-at>"

DocHead(pdf_name) ==
    <<"<!DOCTYPE html>", "<html>", "<body>", "<h1>">> \o pdf_name
        \o <<"</h1>", "<p style='text-align: right;'>", GeneratedAt, "</p>">>

DiscussionHead(avatar_url, name, web_url, username, id, body) ==
    <<"<hr>", OuterTableOpen, "<tr>", "<td>", "<div>", "<img src=">>
        \o avatar_url
        \o <<"</div>", "</td>", "<td>", "<p>">> \o name
        \o <<"<a href=">> \o web_url \o <<"@">> \o username
        \o <<"</a>", "</p>", "<p>", "<strong>">> \o id
        \o <<"</strong>", ":">> \o body \o <<"</p>">>

ReplyRow(avatar_url, name, web_url, username, timestamp, body) ==
    <<"<hr dotted>", ReplyTableOpen, "<tr>", "<td>", "<img src=">>
        \o avatar_url
        \o <<"</td>", "<td>">> \o name
        \o <<"<a href=">> \o web_url \o <<"@">> \o username
        \o <<"</a>", "</td>", "<td>">> \o timestamp
        \o <<"</td>", "</tr>", "<tr>", "<td colspan='3'>", "<p>">> \o body
        \o <<"</p>", "</td>", "</tr>", TableClose>>

DiscussionTail(timestamp) ==
    <<"</td>", "<td>", "<p>">> \o timestamp
        \o <<"</p>", "</td>", "</tr>", TableClose>>

DocTail == <<"</body>", "</html>">>

(***************************************************************************)
(* The requests of the model.  A payload is the canonical well-formed      *)
(* payload of some shape (the number of notes of each discussion) with at  *)
(* most one deviation: one note, one discussion or the top level changed.  *)
(***************************************************************************)
Ts(y, mo, d, h, mi, s, digits, sep, suffix) ==
    [year |-> y, month |-> mo, day |-> d, sep |-> sep, hour |-> h,
     minute |-> mi, second |-> s, fracDigits |-> digits, suffix |-> suffix]

\* "2023-01-02T15:04:05.123456Z"
TsWinter == Ts(2023, 1, 2, 15, 4, 5, 6, "T", "Z")
\* "2023-06-01T03:00:00.000Z", as GitLab writes it
TsSummer == Ts(2023, 6, 1, 3, 0, 0, 3, "T", "Z")
\* "2023-06-01T12:00:00Z": no fractional seconds
TsNoFraction == Ts(2023, 6, 1, 12, 0, 0, 0, "T", "Z")
\* "2023-06-01 12:00:00.000000+00:00"
TsOtherLayout == Ts(2023, 6, 1, 12, 0, 0, 6, " ", "+00:00")

Alice ==
    [name |-> <<"Alice">>, username |-> <<"alice">>,
     web_url |-> <<"https://x/alice">>, avatar_url |-> <<"https://x/a.png">>]

Bob ==
    [name |-> <<"Bob">>, username |-> <<"bob">>,
     web_url |-> <<"https://x/bob">>, avatar_url |-> <<"https://x/b.png">>]

BaseNote == [author |-> Alice, created_at |-> Some(TsWinter), body |-> <<"Hello">>]

\* A body that carries markup: it closes the cell, the row and the table it
\* is written into and opens another table.
MarkupBody ==
    <<"pwned", "</p>", "</td>", "</tr>", TableClose,
      "<hr>", OuterTableOpen, "<tr>", "<td>", "<p>">>

AuthorFields == {"name", "username", "web_url", "avatar_url"}

NoteDeviations ==
    {"other", "markup", "ts_none", "ts_no_fraction", "ts_other_layout",
     "no_author", "no_created_at", "no_body"}
        \cup {"no_" \o f : f \in AuthorFields}

VaryNote(kind, note) ==
    CASE kind = "other" ->
           [author |-> Bob, created_at |-> Some(TsSummer), body |-> <<"LGTM">>]
      [] kind = "markup" -> [note EXCEPT !.body = MarkupBody]
      [] kind = "ts_none" -> [note EXCEPT !.created_at = None]
      [] kind = "ts_no_fraction" -> [note EXCEPT !.created_at = Some(TsNoFraction)]
      [] kind = "ts_other_layout" -> [note EXCEPT !.created_at = Some(TsOtherLayout)]
      [] kind = "no_author" -> Without(note, "author")
      [] kind = "no_created_at" -> Without(note, "created_at")
      [] kind = "no_body" -> Without(note, "body")
      [] OTHER ->
           LET f == CHOOSE g \in AuthorFields : kind = "no_" \o g
           IN [note EXCEPT !.author = Without(note.author, f)]

DiscussionDeviations == {"no_notes", "no_id", "other_id"}

VaryDiscussion(kind, discussion) ==
    CASE kind = "no_notes" -> Without(discussion, "notes")
      [] kind = "no_id" -> Without(discussion, "id")
      [] OTHER -> [discussion EXCEPT !.id = <<"d2">>]

BaseDiscussion(n) == [id |-> <<"d1">>, notes |-> [k \in 1..n |-> BaseNote]]

Shapes == UNION { [1..N -> 0..MaxNotes] : N \in 0..MaxDiscussions }

BaseList(shape) == [d \in 1..Len(shape) |-> BaseDiscussion(shape[d])]

DiscussionLists ==
    UNION { {BaseList(shape)}
            \cup { [BaseList(shape) EXCEPT ![d].notes[n] = VaryNote(kind, @)] :
                     <<d, n, kind>> \in
                       { t \in (1..Len(shape)) \X (1..MaxNotes) \X NoteDeviations :
                           t[2] <= shape[t[1]] } }
            \cup { [BaseList(shape) EXCEPT ![d] = VaryDiscussion(kind, @)] :
                     <<d, kind>> \in (1..Len(shape)) \X DiscussionDeviations }
          : shape \in Shapes }

DefaultName == <<"Code Review Comments">>

Names == { <<"Sprint 4">>, <<>> }

\* The parsed JSON objects.
Payloads ==
    { [discussions |-> ds] : ds \in DiscussionLists }
      \cup { [discussions |-> BaseList(shape), name |-> nm] :
               shape \in Shapes, nm \in Names }
      \cup { <<>>, [name |-> <<"Sprint 4">>] }

\* A request body: none at all, bytes that are not JSON (sent as
\* application/json), or a JSON object.
Bodies ==
    { [kind |-> "absent", value |-> <<>>], [kind |-> "malformed", value |-> <<>>] }
      \cup { [kind |-> "json", value |-> p] : p \in Payloads }

ApiKeys == { None, Some(DEFAULT_KEY), Some(ConfiguredKey) }

Requests ==
    { [method |-> "POST", api_key |-> k, body |-> b] : k \in ApiKeys, b \in Bodies }
      \cup { [method |-> "GET", api_key |-> k,
              body |-> [kind |-> "absent", value |-> <<>>]] : k \in ApiKeys }

NoRequest ==
    [method |-> "", api_key |-> None, body |-> [kind |-> "absent", value |-> <<>>]]

(***************************************************************************)
(* The pieces of the code the actions below are made of.                   *)
(***************************************************************************)

\* request.json.  The body is parsed by the framework: bytes sent as JSON that
\* do not parse make it raise BadRequest (400); without a body there is no
\* JSON content type, for which the framework, by its version, returns None
\* or raises BadRequest (400) or UnsupportedMediaType (415).  An outcome is
\* the status raised (0 for none) and the Optional parsed object.
request_json(body) ==
    CASE body.kind = "json" -> { [raised |-> 0, value |-> Some(body.value)] }
      [] body.kind = "malformed" -> { [raised |-> 400, value |-> None] }
      [] OTHER -> { [raised |-> 0, value |-> None],
                    [raised |-> 400, value |-> None],
                    [raised |-> 415, value |-> None] }

\* "not request.json" for a returned value: None and the empty dict are falsy.
Falsy(json) == json = None \/ DOMAIN json[1] = {}

\* As PdfName, written data.get('name') or 'Code Review Comments'.
PdfNameLenient(data) ==
    IF "name" \in DOMAIN data /\ data.name # <<>> THEN data.name ELSE DefaultName

\* data.get('name', 'Code Review Comments')
PdfName(data) ==
    IF "name" \in DOMAIN data THEN data.name ELSE DefaultName

\* The record a logger.info call appends to api.log.
LogRecord(message, api_key) ==
    [level |-> "INFO", message |-> <<message, FormatKey(api_key)>>]

\* As Audit, without the logger.info call of line 239.
AuditOnlyFailures(log, api_key, keys) ==
    IF InKeys(api_key, keys)
      THEN log
      ELSE Append(log, LogRecord("Invalid API key used: ", api_key))

\* The log after lines 235-239.
Audit(log, api_key, keys) ==
    IF InKeys(api_key, keys)
      THEN Append(log, LogRecord("API key used: ", api_key))
      ELSE Append(log, LogRecord("Invalid API key used: ", api_key))

\* As Replies, written notes[0:].
AllNotes(notes) == notes

\* notes[1:]
Replies(notes) == SubSeq(notes, 2, Len(notes))

Ok(tokens, ts) == [raised |-> "", html |-> tokens, timestamp |-> ts]
Raise(exception) == [raised |-> exception, html |-> <<>>, timestamp |-> None]

\* Lines 139-163: the opening of one discussion's block, or the exception the
\* first failing lookup raises.
OpenDiscussion(discussion) ==
    IF "notes" \notin DOMAIN discussion THEN Raise("KeyError")
    ELSE IF discussion.notes = <<>> THEN Raise("IndexError")
    ELSE LET first_note == discussion.notes[1]
         IN IF "author" \notin DOMAIN first_note THEN Raise("KeyError")
            ELSE IF "avatar_url" \notin DOMAIN first_note.author THEN Raise("KeyError")
            ELSE IF "created_at" \notin DOMAIN first_note THEN Raise("KeyError")
            ELSE IF convert_utc_to_est(first_note.created_at).raised
              THEN Raise("ValueError")
            ELSE IF {"username", "web_url", "name"} \ DOMAIN first_note.author # {}
              THEN Raise("KeyError")
            ELSE IF "id" \notin DOMAIN discussion THEN Raise("KeyError")
            ELSE IF "body" \notin DOMAIN first_note THEN Raise("KeyError")
            ELSE Ok(DiscussionHead(first_note.author.avatar_url,
                                   first_note.author.name,
                                   first_note.author.web_url,
                                   first_note.author.username,
                                   discussion.id,
                                   first_note.body),
                    convert_utc_to_est(first_note.created_at).value)

\* As RenderReply, with the body read by note.get('body', '').
RenderReplyBodyOptional(note) ==
    IF "author" \notin DOMAIN note THEN Raise("KeyError")
    ELSE IF "avatar_url" \notin DOMAIN note.author THEN Raise("KeyError")
    ELSE IF "created_at" \notin DOMAIN note THEN Raise("KeyError")
    ELSE IF convert_utc_to_est(note.created_at).raised THEN Raise("ValueError")
    ELSE IF {"username", "web_url", "name"} \ DOMAIN note.author # {}
      THEN Raise("KeyError")
    ELSE Ok(ReplyRow(note.author.avatar_url,
                     note.author.name,
                     note.author.web_url,
                     note.author.username,
                     FormatOptional(convert_utc_to_est(note.created_at).value),
                     IF "body" \in DOMAIN note THEN note.body ELSE <<>>),
            None)

\* Lines 167-186: the row of one reply, or the exception raised.
RenderReply(note) ==
    IF "author" \notin DOMAIN note THEN Raise("KeyError")
    ELSE IF "avatar_url" \notin DOMAIN note.author THEN Raise("KeyError")
    ELSE IF "created_at" \notin DOMAIN note THEN Raise("KeyError")
    ELSE IF convert_utc_to_est(note.created_at).raised THEN Raise("ValueError")
    ELSE IF {"username", "web_url", "name"} \ DOMAIN note.author # {}
      THEN Raise("KeyError")
    ELSE IF "body" \notin DOMAIN note THEN Raise("KeyError")
    ELSE Ok(ReplyRow(note.author.avatar_url,
                     note.author.name,
                     note.author.web_url,
                     note.author.username,
                     FormatOptional(convert_utc_to_est(note.created_at).value),
                     note.body),
            None)

\* What the framework answers.
JsonError(status, message) ==
    [status |-> status, mimetype |-> "application/json", body |-> <<"error", message>>]

\* An HTTP exception or an unhandled exception of the view: the framework's
\* own error page.
FrameworkError(status) ==
    [status |-> status, mimetype |-> "text/html", body |-> <<"<framework error page>">>]

NoResponse == [status |-> 0, mimetype |-> "", body |-> <<>>]

\* send_pdf_response: Response(pdf_bytes.read(), mimetype="application/pdf", ...)
send_pdf_response(pdf_bytes) ==
    [status |-> 200, mimetype |-> "application/pdf", body |-> pdf_bytes]

\* pisa.CreatePDF(html, dest=pdf): the engine raises, or returns a status
\* whose err is 0 with the document written to dest, or returns a status whose
\* err is not 0 with whatever it wrote until then.
PisaOutcomes ==
    { [status |-> "raised", pdf |-> <<>>],
      [status |-> "ok", pdf |-> <<"%PDF">>],
      [status |-> "err", pdf |-> <<>>],
      [status |-> "err", pdf |-> <<"%PDF (truncated)">>] }

(***************************************************************************)
(* The state.                                                              *)
(***************************************************************************)
VARIABLES
    VALID_API_KEYS, \* the module-level list, loaded once
    log,            \* the records of api.log
    request,        \* the request being served
    pc,             \* where its handling stands
    response,       \* what was answered
    data,           \* handle_generate_pdf: data
    discussions,    \* handle_generate_pdf, generate_code_review_pdf: discussions
    pdf_name,       \* pdf_name
    html,           \* generate_code_review_pdf: html
    i,              \* the discussion the outer loop stands at
    j,              \* the reply the inner loop stands at
    timestamp,      \* the opening note's converted timestamp
    pisa_status,    \* "" until pisa.CreatePDF was called
    pdf,            \* the BytesIO
    raised,         \* the unhandled exception, "" for none
    genCalls        \* calls of generate_code_review_pdf for this request

vars ==
    <<VALID_API_KEYS, log, request, pc, response, data, discussions,
      pdf_name, html, i, j, timestamp, pisa_status, pdf, raised, genCalls>>

locals == <<data, discussions, pdf_name, html, i, j, timestamp, pisa_status, pdf,
            raised, genCalls>>

Init ==
    /\ VALID_API_KEYS \in { load_api_keys(file) : file \in ConfigFiles }
    /\ log = <<>>
    /\ request = NoRequest
    /\ pc = "idle"
    /\ response = NoResponse
    /\ data = <<>>
    /\ discussions = <<>>
    /\ pdf_name = <<>>
    /\ html = <<>>
    /\ i = 0
    /\ j = 0
    /\ timestamp = None
    /\ pisa_status = ""
    /\ pdf = <<>>
    /\ raised = ""
    /\ genCalls = 0

\* A request arrives.  The route takes POST only (line 208): the framework
\* answers any other method with 405 itself, so the view's own test of the
\* method (lines 231-232) never sees one.  A request that enters the view
\* adds a record to the log; MaxRequests bounds these.
Receive ==
    /\ pc = "idle"
    /\ \E r \in Requests :
         /\ request' = r
         /\ IF r.method = "POST"
              THEN /\ Len(log) < MaxRequests
                   /\ pc' = "auth"
                   /\ UNCHANGED response
              ELSE /\ pc' = "done"
                   /\ response' = FrameworkError(405)
    /\ UNCHANGED <<VALID_API_KEYS, log, locals>>

\* The response is on the wire; the request context and the view's locals
\* are gone.
Respond ==
    /\ pc = "done"
    /\ pc' = "idle"
    /\ request' = NoRequest
    /\ response' = NoResponse
    /\ data' = <<>>
    /\ discussions' = <<>>
    /\ pdf_name' = <<>>
    /\ html' = <<>>
    /\ i' = 0
    /\ j' = 0
    /\ timestamp' = None
    /\ pisa_status' = ""
    /\ pdf' = <<>>
    /\ raised' = ""
    /\ genCalls' = 0
    /\ UNCHANGED <<VALID_API_KEYS, log>>

Answer(r) ==
    /\ response' = r
    /\ pc' = "done"

\* An exception nobody catches: the framework answers 500.
Unhandled(exception) ==
    /\ raised' = exception
    /\ Answer(FrameworkError(500))

\* Lines 234-239.
AuthCheck ==
    /\ pc = "auth"
    /\ log' = Audit(log, request.api_key, VALID_API_KEYS)
    /\ IF ~InKeys(request.api_key, VALID_API_KEYS)
         THEN Answer(JsonError(401, "Invalid API key"))
         ELSE pc' = "body" /\ UNCHANGED response
    /\ UNCHANGED <<VALID_API_KEYS, request, locals>>

\* Lines 241-244.
BodyCheck ==
    /\ pc = "body"
    /\ \E json \in request_json(request.body) :
         IF json.raised # 0
           THEN Answer(FrameworkError(json.raised)) /\ UNCHANGED data
         ELSE IF Falsy(json.value)
           THEN Answer(JsonError(400, "Missing body in request")) /\ UNCHANGED data
         ELSE /\ data' = json.value[1]
              /\ pc' = "field"
              /\ UNCHANGED response
    /\ UNCHANGED <<VALID_API_KEYS, log, request, discussions, pdf_name, html,
                   i, j, timestamp, pisa_status, pdf, raised, genCalls>>

\* Lines 245-251 and, in generate_code_review_pdf, lines 130-136.
FieldCheck ==
    /\ pc = "field"
    /\ IF "discussions" \notin DOMAIN data
         THEN /\ Answer(JsonError(400, "Missing discussions in request"))
              /\ UNCHANGED <<discussions, pdf_name, html, i, genCalls>>
         ELSE /\ discussions' = data.discussions
              /\ pdf_name' = PdfName(data)
              /\ genCalls' = genCalls + 1
              /\ html' = DocHead(PdfName(data))
              /\ i' = 1
              /\ pc' = "discussion"
              /\ UNCHANGED response
    /\ UNCHANGED <<VALID_API_KEYS, log, request, data, j, timestamp,
                   pisa_status, pdf, raised>>

\* Lines 138-163: the next discussion of the outer loop.
NextDiscussion ==
    /\ pc = "discussion"
    /\ i <= Len(discussions)
    /\ LET out == OpenDiscussion(discussions[i])
       IN IF out.raised # ""
            THEN Unhandled(out.raised) /\ UNCHANGED <<html, timestamp, j>>
            ELSE /\ html' = html \o out.html
                 /\ timestamp' = out.timestamp
                 /\ j' = 1
                 /\ pc' = "reply"
                 /\ UNCHANGED <<response, raised>>
    /\ UNCHANGED <<VALID_API_KEYS, log, request, data, discussions, pdf_name,
                   i, pisa_status, pdf, genCalls>>

\* Lines 165-186: the next reply of the inner loop.
NextReply ==
    /\ pc = "reply"
    /\ j <= Len(Replies(discussions[i].notes))
    /\ LET out == RenderReply(Replies(discussions[i].notes)[j])
       IN IF out.raised # ""
            THEN Unhandled(out.raised) /\ UNCHANGED <<html, j>>
            ELSE /\ html' = html \o out.html
                 /\ j' = j + 1
                 /\ UNCHANGED <<pc, response, raised>>
    /\ UNCHANGED <<VALID_API_KEYS, log, request, data, discussions, pdf_name,
                   i, timestamp, pisa_status, pdf, genCalls>>

\* Lines 188-195: the inner loop is over, the block is closed.
CloseDiscussion ==
    /\ pc = "reply"
    /\ j > Len(Replies(discussions[i].notes))
    /\ html' = html \o DiscussionTail(FormatOptional(timestamp))
    /\ i' = i + 1
    /\ pc' = "discussion"
    /\ UNCHANGED <<VALID_API_KEYS, log, request, response, data, discussions,
                   pdf_name, j, timestamp, pisa_status, pdf, raised, genCalls>>

\* Lines 197-206: the outer loop is over; the document is closed and handed
\* to the engine, whose status is stored and not read.
CreatePDF ==
    /\ pc = "discussion"
    /\ i > Len(discussions)
    /\ html' = html \o DocTail
    /\ \E out \in PisaOutcomes :
         /\ pisa_status' = out.status
         /\ pdf' = out.pdf
         /\ IF out.status = "raised"
              THEN Unhandled("RenderError")
              ELSE pc' = "send" /\ UNCHANGED <<response, raised>>
    /\ UNCHANGED <<VALID_API_KEYS, log, request, data, discussions, pdf_name,
                   i, j, timestamp, genCalls>>

\* Lines 252-254.
SendPdf ==
    /\ pc = "send"
    /\ Answer(send_pdf_response(pdf))
    /\ UNCHANGED <<VALID_API_KEYS, log, request, locals>>

Next ==
    \/ Receive
    \/ AuthCheck
    \/ BodyCheck
    \/ FieldCheck
    \/ NextDiscussion
    \/ NextReply
    \/ CloseDiscussion
    \/ CreatePDF
    \/ SendPdf
    \/ Respond

Spec == Init /\ [][Next]_vars

(***************************************************************************)
(* Vocabulary of the properties.                                           *)
(***************************************************************************)
IsPost == request.method = "POST"

\* The X-API-KEY header is present and is a member of VALID_API_KEYS.
KeyIsValid ==
    /\ request.api_key # None
    /\ request.api_key[1] \in { VALID_API_KEYS[n] : n \in 1..Len(VALID_API_KEYS) }

HasPayload == request.body.kind = "json"
Payload == request.body.value
HasDiscussions == HasPayload /\ "discussions" \in DOMAIN Payload
Input == Payload.discussions

Done == pc = "done"

\* The HTML is complete: generate_code_review_pdf has reached the engine.
Rendered == pisa_status # ""

NoteIsComplete(note) ==
    /\ {"author", "created_at", "body"} \subseteq DOMAIN note
    /\ AuthorFields \subseteq DOMAIN note.author

DiscussionIsComplete(d) ==
    /\ "notes" \in DOMAIN d
    /\ Len(d.notes) >= 1
    /\ \A n \in 1..Len(d.notes) : NoteIsComplete(d.notes[n])

\* Some note of d carries a timestamp that is present and not in the format.
HasBadTimestamp(d) ==
    /\ "notes" \in DOMAIN d
    /\ \E n \in 1..Len(d.notes) :
         /\ "created_at" \in DOMAIN d.notes[n]
         /\ d.notes[n].created_at # None
         /\ ~MatchesFormat(d.notes[n].created_at[1])

HasNoneTimestamp(d) ==
    /\ "notes" \in DOMAIN d
    /\ \E n \in 1..Len(d.notes) :
         /\ "created_at" \in DOMAIN d.notes[n]
         /\ d.notes[n].created_at = None

RECURSIVE Sum(_)
Sum(ns) == IF ns = <<>> THEN 0 ELSE Head(ns) + Sum(Tail(ns))

RECURSIVE Concat(_)
Concat(ss) == IF ss = <<>> THEN <<>> ELSE Head(ss) \o Concat(Tail(ss))

\* The tables of h opened at nesting depth `level`.
RECURSIVE TablesAt(_, _, _, _)
TablesAt(h, k, depth, level) ==
    IF k > Len(h) THEN 0
    ELSE IF h[k] \in {OuterTableOpen, ReplyTableOpen}
      THEN (IF depth = level THEN 1 ELSE 0) + TablesAt(h, k + 1, depth + 1, level)
    ELSE IF h[k] = TableClose
      THEN TablesAt(h, k + 1, IF depth > 0 THEN depth - 1 ELSE 0, level)
    ELSE TablesAt(h, k + 1, depth, level)

TopLevelBlocks(h) == TablesAt(h, 1, 0, 0)
NestedReplyRows(h) == TablesAt(h, 1, 0, 1)

\* The words of the discussion ids and note bodies of the requests.
IsContent(token) == token \in {"d1", "d2", "Hello", "LGTM", "pwned"}

\* The ids and bodies as the input lists them: per discussion its id, then the
\* bodies of its notes in list order.
ContentOfDiscussion(d) ==
    SelectSeq(d.id, IsContent)
        \o Concat([n \in 1..Len(d.notes) |-> SelectSeq(d.notes[n].body, IsContent)])

ContentOfInput(ds) == Concat([d \in 1..Len(ds) |-> ContentOfDiscussion(ds[d])])

\* What stands between the first <h1> and the first </h1> of h.
Heading(h) ==
    LET opens == { k \in 1..Len(h) : h[k] = "<h1>" }
        closes == { k \in 1..Len(h) : h[k] = "</h1>" }
    IN IF opens = {} \/ closes = {} THEN <<>>
       ELSE SubSeq(h,
                   (CHOOSE k \in opens : \A m \in opens : k <= m) + 1,
                   (CHOOSE k \in closes : \A m \in closes : k <= m) - 1)

(***************************************************************************)
(* C1.  A POST request whose X-API-KEY header is absent or not in          *)
(* VALID_API_KEYS is answered 401 {"error": "Invalid API key"} whatever    *)
(* its body is; its handling never gets past the key check and             *)
(* generate_code_review_pdf is not called for it.                          *)
(***************************************************************************)
C1_InvalidKeyIs401 ==
    (IsPost /\ ~KeyIsValid) =>
        /\ pc \in {"auth", "done"}
        /\ genCalls = 0
        /\ pisa_status = ""
        /\ Done =>
             response = [status |-> 401, mimetype |-> "application/json",
                         body |-> <<"error", "Invalid API key">>]

C1_Witness ==
    /\ Done /\ IsPost /\ ~KeyIsValid
    /\ request.api_key = None
    /\ HasDiscussions /\ Len(Input) = 2
    /\ response.status = 401

(***************************************************************************)
(* C2.  Each request that reaches the key check appends exactly one record *)
(* to the audit log, which carries the presented key ("None" for an absent *)
(* one), valid or not; nothing else writes the log, so the record is there *)
(* before the body check, the field check and the rendering of the request.*)
(***************************************************************************)
C2_AuditStep ==
    IF pc = "auth"
      THEN /\ Len(log') = Len(log) + 1
           /\ SubSeq(log', 1, Len(log)) = log
           /\ log'[Len(log')].message[2] =
                (IF request.api_key = None THEN "None" ELSE request.api_key[1])
      ELSE log' = log

C2_AuditBeforeProcessing ==
    pc \in {"body", "field", "discussion", "reply", "send"} =>
        /\ Len(log) >= 1
        /\ log[Len(log)].message[2] = request.api_key[1]

C2_OneAuditRecordPerRequest ==
    [][C2_AuditStep]_vars /\ []C2_AuditBeforeProcessing

C2_Witness ==
    /\ Done /\ IsPost
    /\ request.api_key = None
    /\ Len(log) = 2
    /\ log[1].message = <<"API key used: ", DEFAULT_KEY>>
    /\ log[2].message = <<"Invalid API key used: ", "None">>

(***************************************************************************)
(* C3.  A request with a valid key whose body is the empty JSON object is  *)
(* answered 400 {"error": "Missing discussions in request"}.               *)
(***************************************************************************)
C3_EmptyObjectIsMissingDiscussions ==
    (Done /\ IsPost /\ KeyIsValid /\ HasPayload /\ DOMAIN Payload = {}) =>
        response = [status |-> 400, mimetype |-> "application/json",
                    body |-> <<"error", "Missing discussions in request">>]

(***************************************************************************)
(* C4.  A request with a valid key and no body, or a body that is not      *)
(* JSON, is answered 400 {"error": "Missing body in request"}; the field   *)
(* check and the renderer are not reached.                                 *)
(***************************************************************************)
C4_NoBodyIsMissingBody ==
    (IsPost /\ KeyIsValid /\ request.body.kind \in {"absent", "malformed"}) =>
        /\ pc \in {"auth", "body", "done"}
        /\ genCalls = 0
        /\ Done =>
             response = [status |-> 400, mimetype |-> "application/json",
                         body |-> <<"error", "Missing body in request">>]

(***************************************************************************)
(* C5.  For N discussions of n_1 .. n_N >= 1 complete notes the finished   *)
(* HTML holds exactly N top-level tables and exactly n_1 + .. + n_N - N    *)
(* nested reply tables.                                                    *)
(***************************************************************************)
C5_BlockCounts ==
    (HasDiscussions /\ Rendered
       /\ \A d \in 1..Len(Input) : DiscussionIsComplete(Input[d])) =>
        /\ TopLevelBlocks(html) = Len(Input)
        /\ NestedReplyRows(html) =
             Sum([d \in 1..Len(Input) |-> Len(Input[d].notes)]) - Len(Input)

(***************************************************************************)
(* C6.  The finished HTML carries the discussions in input order and, in   *)
(* each, the notes in input order: read from start to end, the ids and     *)
(* bodies in the document are those of the input, each once, identical     *)
(* ones included.                                                          *)
(***************************************************************************)
C6_InputOrderKept ==
    (HasDiscussions /\ Rendered) =>
        SelectSeq(html, IsContent) = ContentOfInput(Input)

C6_Witness ==
    /\ Rendered /\ HasDiscussions
    /\ Len(Input) = 2
    /\ Input[1] = Input[2]
    /\ Len(Input[1].notes) = 2
    /\ Input[1].notes[1] = Input[1].notes[2]
    /\ SelectSeq(html, IsContent) = <<"d1", "Hello", "Hello", "d1", "Hello", "Hello">>

(***************************************************************************)
(* C7.  A request in which a discussion has no notes, or a note or author  *)
(* lacks a required field, fails as a whole: the engine is not called, the *)
(* answer is not 200 but the 500 of an unhandled exception, and the outer  *)
(* loop never moves past the first such discussion.                        *)
(***************************************************************************)
C7_FirstIncomplete ==
    CHOOSE d \in 1..Len(Input) :
        /\ ~DiscussionIsComplete(Input[d])
        /\ \A e \in 1..(d - 1) : DiscussionIsComplete(Input[e])

C7_IncompleteInputFails ==
    (IsPost /\ HasDiscussions
       /\ \E d \in 1..Len(Input) : ~DiscussionIsComplete(Input[d])) =>
        /\ pisa_status = ""
        /\ pdf = <<>>
        /\ response.status # 200
        /\ i <= C7_FirstIncomplete
        /\ (Done /\ KeyIsValid) => (response.status = 500 /\ raised # "")

C7_Witness ==
    /\ Done /\ IsPost /\ HasDiscussions
    /\ Len(Input) = 2
    /\ DiscussionIsComplete(Input[1])
    /\ "notes" \in DOMAIN Input[2] /\ Input[2].notes = <<>>
    /\ raised = "IndexError"
    /\ TopLevelBlocks(html) = 1
    /\ response.status = 500

(***************************************************************************)
(* C8.  When the engine fails, by raising or by the status it returns, the *)
(* request fails with a 500: it is never answered 200 application/pdf.     *)
(***************************************************************************)
C8_EngineFailureIs500 ==
    (Done /\ pisa_status \in {"raised", "err"}) =>
        /\ response.status = 500
        /\ response.mimetype # "application/pdf"

(***************************************************************************)
(* C9.  convert_utc_to_est returns None for None without an error; for a   *)
(* timestamp that is present and not in the format it raises, and the      *)
(* error leaves generate_code_review_pdf and handle_generate_pdf: nothing  *)
(* is rendered for that timestamp, the engine is not called and the        *)
(* request is not answered 200, whether the note is an opening one or a    *)
(* reply.                                                                  *)
(***************************************************************************)
C9_BadTimestampFails ==
    /\ (IsPost /\ HasDiscussions /\ \E d \in 1..Len(Input) : HasBadTimestamp(Input[d])) =>
         /\ pisa_status = ""
         /\ response.status # 200
         /\ (Done /\ KeyIsValid) => (response.status = 500 /\ raised # "")
         /\ (Done /\ KeyIsValid /\ \A d \in 1..Len(Input) : DiscussionIsComplete(Input[d]))
              => raised = "ValueError"
    /\ (IsPost /\ HasDiscussions
          /\ (\E d \in 1..Len(Input) : HasNoneTimestamp(Input[d]))
          /\ \A d \in 1..Len(Input) :
               /\ DiscussionIsComplete(Input[d])
               /\ "id" \in DOMAIN Input[d]
               /\ ~HasBadTimestamp(Input[d])) =>
         /\ raised \in {"", "RenderError"}
         /\ (Done /\ KeyIsValid /\ pisa_status # "raised") => response.status = 200

C9_Witness ==
    /\ Done /\ IsPost /\ HasDiscussions
    /\ raised = "ValueError"
    /\ i = 2
    /\ MatchesFormat(Input[2].notes[1].created_at[1])
    /\ ~MatchesFormat(Input[2].notes[2].created_at[1])
    /\ response.status = 500

C9_WitnessNone ==
    /\ Done /\ IsPost /\ HasDiscussions
    /\ \E d \in 1..Len(Input) : HasNoneTimestamp(Input[d])
    /\ response.status = 200

(***************************************************************************)
(* C10.  For a request with a valid key and a discussions field the title  *)
(* handed to the renderer, and the heading of the document, is "Code       *)
(* Review Comments" when the body has no name field and the supplied       *)
(* string when it has one.                                                 *)
(***************************************************************************)
C10_Title ==
    IF "name" \in DOMAIN Payload THEN Payload.name ELSE <<"Code Review Comments">>

C10_TitleIsNameOrDefault ==
    (IsPost /\ KeyIsValid /\ HasDiscussions /\ pc \notin {"auth", "body", "field"}) =>
        /\ genCalls = 1
        /\ pdf_name = C10_Title
        /\ Heading(html) = C10_Title

C10_Witness ==
    /\ Done /\ IsPost /\ HasDiscussions
    /\ "name" \in DOMAIN Payload
    /\ Payload.name = <<"Sprint 4">>
    /\ Len(Input) = 2
    /\ Heading(html) = <<"Sprint 4">>
    /\ response.status = 200

====
